---- MODULE Spec2Model ----
(***************************************************************************)
(* Model of the NBA mock draft view (flimmbark-source/MockDraft).          *)
(*                                                                         *)
(*   - the data normalizer: normalizeTeams / createTeamId                  *)
(*   - the navigation state machine of the NbaMockDraftUi component        *)
(*     (complete variant), with its asynchronous loadDraft                 *)
(*                                                                         *)
(* A JavaScript string is modelled as a sequence of one-character strings, *)
(* so that trimming, lower-casing and the two regular-expression           *)
(* replacements of createTeamId are computed character by character.       *)
(* An optional field of a raw record is present exactly when its name is   *)
(* in the DOMAIN of the record (JSON null behaves like an absent field     *)
(* under the &&, ?? and ?. the code uses, so it is not modelled apart).    *)
(***************************************************************************)
EXTENDS Integers, Sequences, FiniteSets, TLC

VARIABLES
    \* ---- component state (useState / useRef of NbaMockDraftUi) ----
    teams,          \* Team[]            canonical team list
    view,           \* "overview" | "team"
    activeTeam,     \* Team | Null
    activePlayer,   \* Player | Null
    isLoading,      \* boolean
    error,          \* string | NoError
    isMountedRef,   \* isMountedRef.current
    \* ---- environment of the component ----
    effectActive,   \* the mount effect is set up (its cleanup has not run)
    fetching,       \* number of loadDraft calls suspended at `await fetch(...)`
    parsing,        \* number of loadDraft calls suspended at `await response.json()`
    seedPending,    \* the seeding effect is scheduled (its deps changed)
    unhandled,      \* a loadDraft promise was rejected (an error escaped)
    trigger,        \* the last event handler / callback that ran
    before,         \* the view and the number of teams when it started
    loads,          \* the pending loadDraft calls, by kind (how many of each)
    raced,          \* since the last call of loadDraft, a call ended while
                    \* another one was pending
    \* ---- normalizeTeams applied to an input (SpecNorm) ----
    rawTeams,       \* the argument array (as the caller sees it)
    normalized,     \* the returned array
    \* ---- createTeamId applied to one record (SpecId) ----
    team,           \* the raw record
    index,          \* its zero-based position
    teamId,         \* the returned id
    \* ---- renderStatChip applied to one label and stats (SpecStat) ----
    stats,          \* PlayerStats | NoStats
    label,          \* the stat label
    chip,           \* the text shown under the label
    \* ---- the minimal variant of the component, next to it (SpecPair) ----
    minimal,        \* its teams, view, activeTeam, activePlayer, and whether
                    \* its seeding effect is scheduled
    pc              \* "ui" | "loads" | "pair" | "start" | "done"

uiVars   == <<teams, view, activeTeam, activePlayer, isLoading, error,
              isMountedRef, effectActive, fetching, parsing, seedPending,
              unhandled, trigger, before, loads, raced>>
normVars == <<rawTeams, normalized>>
idVars   == <<team, index, teamId>>
statVars == <<stats, label, chip>>
minVars  == <<minimal>>
vars     == <<uiVars, normVars, idVars, statVars, minVars, pc>>

Null    == [null |-> TRUE]      \* null for Team | null and Player | null
NoError == "null"               \* null for string | null
NotRun  == <<"<not run>">>      \* result slot of a function not yet called

-----------------------------------------------------------------------------
(***************************************************************************)
(* Strings                                                                 *)
(***************************************************************************)
UpperLetters == <<"A","B","C","D","E","F","G","H","I","J","K","L","M",
                  "N","O","P","Q","R","S","T","U","V","W","X","Y","Z">>
LowerLetters == <<"a","b","c","d","e","f","g","h","i","j","k","l","m",
                  "n","o","p","q","r","s","t","u","v","w","x","y","z">>
DigitChars   == <<"0","1","2","3","4","5","6","7","8","9">>

Range(s) == { s[i] : i \in DOMAIN s }

IsWhitespace(c) == c \in {" ", "\t", "\n"}

\* String.prototype.trim
trim(s) ==
    LET keep == { i \in DOMAIN s : ~IsWhitespace(s[i]) }
    IN  IF keep = {} THEN <<>>
        ELSE LET lo == CHOOSE i \in keep : \A j \in keep : i <= j
                 hi == CHOOSE i \in keep : \A j \in keep : j <= i
             IN  SubSeq(s, lo, hi)

toLowerChar(c) ==
    IF c \in Range(UpperLetters)
    THEN LowerLetters[CHOOSE i \in DOMAIN UpperLetters : UpperLetters[i] = c]
    ELSE c

\* String.prototype.toLowerCase
toLowerCase(s) == [i \in DOMAIN s |-> toLowerChar(s[i])]

\* String.prototype.toUpperCase
toUpperChar(c) ==
    IF c \in Range(LowerLetters)
    THEN UpperLetters[CHOOSE i \in DOMAIN LowerLetters : LowerLetters[i] = c]
    ELSE c

toUpperCase(s) == [i \in DOMAIN s |-> toUpperChar(s[i])]

\* the character class [a-z0-9]
IsSlugChar(c) == c \in Range(LowerLetters) \cup Range(DigitChars)

\* .replace(/[^a-z0-9]+/g, "-"): every maximal run of characters outside
\* [a-z0-9] becomes one hyphen
RECURSIVE replaceRuns(_)
replaceRuns(s) ==
    IF s = <<>> THEN <<>>
    ELSE IF IsSlugChar(Head(s)) THEN <<Head(s)>> \o replaceRuns(Tail(s))
    ELSE LET rest == { i \in DOMAIN s : IsSlugChar(s[i]) }
         IN  IF rest = {} THEN <<"-">>
             ELSE LET n == CHOOSE i \in rest : \A j \in rest : i <= j
                  IN  <<"-">> \o replaceRuns(SubSeq(s, n, Len(s)))

\* .replace(/(^-|-$)/g, ""): a hyphen at the start and a hyphen at the end
stripEdgeHyphens(s) ==
    LET a == IF s # <<>> /\ Head(s) = "-" THEN Tail(s) ELSE s
    IN  IF a # <<>> /\ a[Len(a)] = "-" THEN SubSeq(a, 1, Len(a) - 1) ELSE a

\* `${n}` for a non-negative integer: its decimal digits
RECURSIVE toString(_)
toString(n) ==
    IF n < 10 THEN <<DigitChars[n + 1]>>
    ELSE toString(n \div 10) \o <<DigitChars[(n % 10) + 1]>>

TeamDash   == <<"t","e","a","m","-">>       \* the literal `team-`
TeamSpace  == <<"T","e","a","m"," ">>       \* the literal `Team `

-----------------------------------------------------------------------------
(***************************************************************************)
(* Data normalizer                                                         *)
(***************************************************************************)
Has(r, f) == f \in DOMAIN r

\* createTeamId(team, index), with its slug bug variant defined first
createTeamIdKeepEdges(t, i) ==
    IF Has(t, "id") /\ Len(trim(t.id)) > 0 THEN t.id
    ELSE IF Has(t, "name") /\ Len(trim(t.name)) > 0
         THEN LET slug == replaceRuns(toLowerCase(trim(t.name)))
              IN  IF Len(slug) > 0 THEN slug \o <<"-">> \o toString(i)
                  ELSE TeamDash \o toString(i)
         ELSE TeamDash \o toString(i)

createTeamId(t, i) ==
    IF Has(t, "id") /\ Len(trim(t.id)) > 0 THEN t.id
    ELSE IF Has(t, "name") /\ Len(trim(t.name)) > 0
         THEN LET slug == stripEdgeHyphens(replaceRuns(toLowerCase(trim(t.name))))
              IN  IF Len(slug) > 0 THEN slug \o <<"-">> \o toString(i)
                  ELSE TeamDash \o toString(i)
         ELSE TeamDash \o toString(i)

\* Array.prototype.sort((first, second) => first.pick - second.pick):
\* a stable sort, ascending by pick
RECURSIVE sortByPick(_)
sortByPick(ps) ==
    IF ps = <<>> THEN <<>>
    ELSE LET n    == Len(ps)
             init == sortByPick(SubSeq(ps, 1, n - 1))
             x    == ps[n]
             le   == { k \in DOMAIN init : init[k].pick <= x.pick }
             m    == IF le = {} THEN 0
                     ELSE CHOOSE k \in le : \A j \in le : j <= k
         IN  SubSeq(init, 1, m) \o <<x>> \o SubSeq(init, m + 1, Len(init))

\* [...(team.picks ?? [])].sort(...): `out` is the returned array, `arg` is
\* team.picks as the caller sees it afterwards.  sort works in place; the
\* spread makes it work on a copy.  The variant without the copy comes first.
sortedPicksInPlace(t) ==
    IF Has(t, "picks")
    THEN [out |-> sortByPick(t.picks), arg |-> sortByPick(t.picks)]
    ELSE [out |-> <<>>, arg |-> <<>>]

sortedPicks(t) ==
    IF Has(t, "picks")
    THEN [out |-> sortByPick(t.picks), arg |-> t.picks]
    ELSE [out |-> <<>>, arg |-> <<>>]

\* one element of the map; first a variant whose default name uses the index
normalizeTeamNameByIndex(t, i) ==
    [id    |-> createTeamId(t, i),
     name  |-> IF Has(t, "name") THEN t.name ELSE TeamSpace \o toString(i),
     logo  |-> IF Has(t, "logo") THEN t.logo ELSE <<>>,
     picks |-> sortedPicks(t).out]

normalizeTeam(t, i) ==
    [id    |-> createTeamId(t, i),
     name  |-> IF Has(t, "name") THEN t.name ELSE TeamSpace \o toString(i + 1),
     logo  |-> IF Has(t, "logo") THEN t.logo ELSE <<>>,
     picks |-> sortedPicks(t).out]

\* normalizeTeams(rawTeams): rawTeams.map((team, index) => ...); position p of
\* the sequence is index p - 1 of the array
normalizeTeams(raw) == [p \in DOMAIN raw |-> normalizeTeam(raw[p], p - 1)]

\* the argument array after the call
argAfterNormalize(raw) ==
    [p \in DOMAIN raw |->
        IF Has(raw[p], "picks")
        THEN [raw[p] EXCEPT !.picks = sortedPicks(raw[p]).arg]
        ELSE raw[p]]

-----------------------------------------------------------------------------
(***************************************************************************)
(* Inputs of the normalizer                                                *)
(***************************************************************************)
MaxNameLen  == 4    \* longest generated team name (SpecId)
MaxRawTeams == 2    \* longest generated raw team array (SpecNorm)
MaxPicks    == 3    \* longest generated picks array
MaxPickNo   == 3    \* largest generated pick number

SeqsUpTo(S, n) == UNION { [1..k -> S] : k \in 0..n }

\* A pending loadDraft call is told apart by the await it is suspended at,
\* by its caller (the mount effect or the Retry button) and, when the mount
\* effect called it, by whether the cleanup of that effect has run since.
LoadKinds ==
    { k \in [phase : {"fetch", "json"}, origin : {"mount", "retry"},
             stale : BOOLEAN] : k.origin = "retry" => ~k.stale }
NoLoads == [k \in LoadKinds |-> 0]

\* ---- stat chips --------------------------------------------------------
\* `stats` is undefined, or an object given as [object |-> its properties];
\* a property value is the text React renders for it, or null
NoStats   == [undefined |-> TRUE]
Undefined == <<"<undefined>">>
JsNull    == <<"<null>">>
Placeholder == <<"-", "-">>

\* st[key], for the st object st
Property(st, key) ==
    IF key \in DOMAIN st.object THEN st.object[key] ELSE Undefined

\* a variant of resolveStatValue that looks up the exact key only
resolveStatValueExactOnly(st, key) ==
    IF st = NoStats THEN Undefined ELSE Property(st, key)

resolveStatValue(st, key) ==
    IF st = NoStats THEN Undefined
    ELSE IF Property(st, key) # Undefined THEN Property(st, key)
    ELSE LET lowerKey == toLowerCase(key) IN
         IF Property(st, lowerKey) # Undefined THEN Property(st, lowerKey)
    ELSE LET upperKey == toUpperCase(key) IN
         IF Property(st, upperKey) # Undefined THEN Property(st, upperKey)
    ELSE Undefined

\* the text of the chip's second paragraph, {value ?? "--"}
renderStatChip(l, st) ==
    LET value == resolveStatValue(st, l)
    IN  IF value \in {Undefined, JsNull} THEN Placeholder ELSE value

PPG == <<"P", "P", "G">>
RPG == <<"R", "P", "G">>
APG == <<"A", "P", "G">>
StatLabels == {PPG, RPG, APG}
StatKeys ==
    {PPG, <<"p", "p", "g">>, <<"P", "p", "g">>, <<"r", "p", "g">>, APG,
     <<"a", "p", "g">>}
StatValues == {<<"2", "4", ".", "5">>, <<"0">>, JsNull}
StatsInputs ==
    {NoStats} \cup
    { [object |-> f] : f \in UNION { [K -> StatValues] : K \in SUBSET StatKeys } }

EmptyRecord == [f \in {} |-> 0]                     \* the JSON object {}
Opt(f, V)   == {EmptyRecord} \cup { f :> v : v \in V }  \* field f absent, or one of V

GoldenStateWarriors ==
    <<"G","o","l","d","e","n"," ","S","t","a","t","e"," ",
      "W","a","r","r","i","o","r","s">>

NameAlphabet == {"a", "B", "7", " ", "-"}
NameInputs   == SeqsUpTo(NameAlphabet, MaxNameLen) \cup {GoldenStateWarriors}
IdInputs     == { <<>>, <<" ">>, <<"x">>, <<" ","x"," ">> }
IndexInputs  == {0, 3, 12}

PlayerPool ==
    { [pick |-> n, player |-> <<"p">>] : n \in 1..MaxPickNo }
        \cup { [pick |-> 1, player |-> <<"q">>] }
PickLists  == SeqsUpTo(PlayerPool, MaxPicks)

Pk(n) == [pick |-> n, player |-> <<"p">>]

\* raw records that vary the id and the name, the logo, or the picks
FieldTeams ==
    { a @@ b : a \in Opt("id", { <<>>, <<" ">>, <<"x">>, TeamDash \o <<"1">> }),
               b \in Opt("name", { <<>>, <<"x">>, <<"X"," ","y">> }) }
        \cup { [logo |-> <<"l">>], [picks |-> <<>>], [picks |-> <<Pk(2), Pk(1)>>] }

\* arrays of such records, and arrays whose last record has arbitrary picks
RawTeamsInputs ==
    SeqsUpTo(FieldTeams, MaxRawTeams)
        \cup { <<[picks |-> ps]>> : ps \in PickLists }
        \cup { <<[picks |-> <<Pk(2), Pk(1)>>], [id |-> <<"x">>, picks |-> ps]>> :
                   ps \in PickLists }

-----------------------------------------------------------------------------
(***************************************************************************)
(* SpecNorm: normalizeTeams applied to one input array                     *)
(***************************************************************************)
UiIdle ==
    /\ teams = <<>> /\ view = "overview" /\ activeTeam = Null
    /\ activePlayer = Null /\ isLoading = TRUE /\ error = NoError
    /\ isMountedRef = TRUE /\ effectActive = FALSE /\ fetching = 0
    /\ parsing = 0 /\ seedPending = FALSE /\ unhandled = FALSE
    /\ trigger = "none"
    /\ before = [view |-> "overview", count |-> 0]
    /\ loads = NoLoads /\ raced = FALSE

NormIdle == rawTeams = <<>> /\ normalized = NotRun
IdIdle   == team = EmptyRecord /\ index = 0 /\ teamId = NotRun
StatIdle == stats = NoStats /\ label = <<>> /\ chip = NotRun
\* the useState initial values of the minimal variant
MinimalIdle ==
    minimal = [teams |-> <<>>, view |-> "overview", activeTeam |-> Null,
               activePlayer |-> Null, seedPending |-> FALSE]

InitNorm ==
    /\ UiIdle /\ IdIdle /\ StatIdle /\ MinimalIdle
    /\ rawTeams \in RawTeamsInputs
    /\ normalized = NotRun
    /\ pc = "start"

Normalize ==
    /\ pc = "start"
    /\ normalized' = normalizeTeams(rawTeams)
    /\ rawTeams' = argAfterNormalize(rawTeams)
    /\ pc' = "done"
    /\ UNCHANGED <<uiVars, idVars, statVars, minVars>>

NextNorm == Normalize
SpecNorm == InitNorm /\ [][NextNorm]_vars

(***************************************************************************)
(* SpecId: createTeamId applied to one record and index                    *)
(***************************************************************************)
InitId ==
    /\ UiIdle /\ NormIdle /\ StatIdle /\ MinimalIdle
    /\ team \in { a @@ b : a \in Opt("id", IdInputs), b \in Opt("name", NameInputs) }
    /\ index \in IndexInputs
    /\ teamId = NotRun
    /\ pc = "start"

CreateTeamId ==
    /\ pc = "start"
    /\ teamId' = createTeamId(team, index)
    /\ pc' = "done"
    /\ UNCHANGED <<team, index, uiVars, normVars, statVars, minVars>>

NextId == CreateTeamId
SpecId == InitId /\ [][NextId]_vars

\* ---- renderStatChip applied once to one label and one player's stats ----
InitStat ==
    /\ UiIdle /\ NormIdle /\ IdIdle /\ MinimalIdle
    /\ stats \in StatsInputs
    /\ label \in StatLabels
    /\ chip = NotRun
    /\ pc = "start"

RenderStatChip ==
    /\ pc = "start"
    /\ chip' = renderStatChip(label, stats)
    /\ pc' = "done"
    /\ UNCHANGED <<stats, label, uiVars, normVars, idVars, minVars>>

NextStat == RenderStatChip
SpecStat == InitStat /\ [][NextStat]_vars

-----------------------------------------------------------------------------
(***************************************************************************)
(* The component NbaMockDraftUi (complete variant)                         *)
(***************************************************************************)
MaxTeams    == 2    \* longest generated team array of a fetched document
MaxInFlight == 2    \* most loadDraft calls pending at once

ErrorMessage == "Failed to load draft data. Please try again later."

\* raw records a fetched document is made of: two share the provided id "a"
UiTeamPool ==
    { [id |-> <<"a">>, picks |-> <<Pk(2), Pk(1)>>],
      [id |-> <<"a">>, name |-> <<"B">>],
      [name |-> <<"c">>, picks |-> <<Pk(3)>>] }

\* two arrays of three records: the first two share an id; all ids differ
SharedIdTeams ==
    << [id |-> <<"a">>, name |-> <<"B">>],
       [id |-> <<"a">>, picks |-> <<Pk(2), Pk(1)>>],
       [name |-> <<"c">>, picks |-> <<Pk(3)>>] >>
DistinctIdTeams ==
    << [name |-> <<"c">>, picks |-> <<Pk(3)>>],
       [id |-> <<"a">>, picks |-> <<Pk(2), Pk(1)>>],
       [name |-> <<"c">>, picks |-> <<Pk(3)>>] >>

\* parsed bodies of /draft.json: an object without `teams`, or with a team array
Documents ==
    {EmptyRecord}
        \cup { [teams |-> r] : r \in SeqsUpTo(UiTeamPool, MaxTeams) }
        \cup { [teams |-> SharedIdTeams], [teams |-> DistinctIdTeams] }
\* the three documents served when the pending loads are told apart
RaceDocuments ==
    { EmptyRecord,
      [teams |-> << [id |-> <<"a">>, name |-> <<"B">>] >>],
      [teams |-> << [id |-> <<"a">>, picks |-> <<Pk(2), Pk(1)>>],
                    [name |-> <<"c">>, picks |-> <<Pk(3)>>] >>] }
\* the parsed body `null`, on which `data.teams` throws a TypeError
NullBody == Null

\* the component state as one record
Ui ==
    [teams |-> teams, view |-> view, activeTeam |-> activeTeam,
     activePlayer |-> activePlayer, isLoading |-> isLoading, error |-> error,
     unhandled |-> unhandled]

\* team.picks?.[0] ?? null
firstPick(t) == IF Len(t.picks) > 0 THEN t.picks[1] ELSE Null

\* ---- loadDraft ----------------------------------------------------------
\* setIsLoading(true), before the first await; first a variant of it that
\* also returns to an empty Overview
loadDraftStartReset(s) ==
    [s EXCEPT !.isLoading = TRUE, !.view = "overview", !.activeTeam = Null,
              !.activePlayer = Null]

loadDraftStart(s) == [s EXCEPT !.isLoading = TRUE]

\* the try block after `await response.json()` resolved with `data`; first two
\* variants of it: one that never resets the selection, and one that drops a
\* selected team that is not in the new list; between them one that leaves
\* the error
loadDraftSuccessKeepSelection(s, mounted, data) ==
    IF ~mounted THEN s
    ELSE [s EXCEPT !.teams = normalizeTeams(IF Has(data, "teams")
                                            THEN data.teams ELSE <<>>),
                   !.error = NoError]

loadDraftSuccessKeepError(s, mounted, data) ==
    IF ~mounted THEN s
    ELSE LET normalizedTeams ==
                 normalizeTeams(IF Has(data, "teams") THEN data.teams ELSE <<>>)
             t == [s EXCEPT !.teams = normalizedTeams]
         IN  IF Len(normalizedTeams) = 0
             THEN [t EXCEPT !.activeTeam = Null, !.activePlayer = Null,
                            !.view = "overview"]
             ELSE t

\* and one that adds the new teams to the list
loadDraftSuccessAppend(s, mounted, data) ==
    IF ~mounted THEN s
    ELSE LET normalizedTeams ==
                 normalizeTeams(IF Has(data, "teams") THEN data.teams ELSE <<>>)
             t == [s EXCEPT !.teams = s.teams \o normalizedTeams,
                            !.error = NoError]
         IN  IF Len(normalizedTeams) = 0
             THEN [t EXCEPT !.activeTeam = Null, !.activePlayer = Null,
                            !.view = "overview"]
             ELSE t

loadDraftSuccessRevalidate(s, mounted, data) ==
    IF ~mounted THEN s
    ELSE LET normalizedTeams ==
                 normalizeTeams(IF Has(data, "teams") THEN data.teams ELSE <<>>)
             t == [s EXCEPT !.teams = normalizedTeams, !.error = NoError]
         IN  IF s.activeTeam = Null
                \/ \E i \in DOMAIN normalizedTeams :
                       normalizedTeams[i].id = s.activeTeam.id
             THEN t
             ELSE [t EXCEPT !.activeTeam = Null, !.activePlayer = Null,
                            !.view = "overview"]

loadDraftSuccess(s, mounted, data) ==
    IF ~mounted THEN s
    ELSE LET normalizedTeams ==
                 normalizeTeams(IF Has(data, "teams") THEN data.teams ELSE <<>>)
             t == [s EXCEPT !.teams = normalizedTeams, !.error = NoError]
         IN  IF Len(normalizedTeams) = 0
             THEN [t EXCEPT !.activeTeam = Null, !.activePlayer = Null,
                            !.view = "overview"]
             ELSE t

\* the catch block; first two variants of it: without the liveness check, and
\* without setTeams([])
loadDraftCatchUnguarded(s, mounted) ==
    [s EXCEPT !.error = ErrorMessage, !.teams = <<>>, !.activeTeam = Null,
              !.activePlayer = Null, !.view = "overview"]

loadDraftCatchKeepTeams(s, mounted) ==
    IF ~mounted THEN s
    ELSE [s EXCEPT !.error = ErrorMessage, !.activeTeam = Null,
                   !.activePlayer = Null, !.view = "overview"]

\* and a third variant, which leaves the view and the selection
loadDraftCatchKeepView(s, mounted) ==
    IF ~mounted THEN s
    ELSE [s EXCEPT !.error = ErrorMessage, !.teams = <<>>]

loadDraftCatch(s, mounted) ==
    IF ~mounted THEN s
    ELSE [s EXCEPT !.error = ErrorMessage, !.teams = <<>>, !.activeTeam = Null,
                   !.activePlayer = Null, !.view = "overview"]

\* the finally block
loadDraftFinally(s, mounted) ==
    IF mounted THEN [s EXCEPT !.isLoading = FALSE] ELSE s

\* loadDraft resumed by a failure: fetch rejected, status not ok (the throw in
\* the try block), response.json() rejected, or a TypeError on the body
loadDraftFailed(s, mounted) == loadDraftFinally(loadDraftCatch(s, mounted), mounted)

\* loadDraft resumed by response.json() resolving with `data`
loadDraftParsed(s, mounted, data) ==
    IF data = NullBody THEN loadDraftFailed(s, mounted)
    ELSE loadDraftFinally(loadDraftSuccess(s, mounted, data), mounted)

\* ---- navigation ---------------------------------------------------------
\* the seeding effect; first a variant of it that always takes the first pick
seedActivePlayerAlwaysFirst(s) ==
    IF s.view = "team" /\ s.activeTeam # Null
    THEN [s EXCEPT !.activePlayer = firstPick(s.activeTeam)]
    ELSE s

seedActivePlayer(s) ==
    IF s.view = "team" /\ s.activeTeam # Null
    THEN [s EXCEPT !.activePlayer =
             IF s.activePlayer # Null THEN s.activePlayer
             ELSE firstPick(s.activeTeam)]
    ELSE s

\* zero-based index of the first team with the active team's id, or -1
activeTeamIndex(s) ==
    IF s.activeTeam = Null THEN -1
    ELSE LET hits == { p \in DOMAIN s.teams : s.teams[p].id = s.activeTeam.id }
         IN  IF hits = {} THEN -1
             ELSE (CHOOSE p \in hits : \A q \in hits : p <= q) - 1

moveToTeam(s, nextIndex) ==
    IF (nextIndex + 1) \notin DOMAIN s.teams THEN s
    ELSE LET nextTeam == s.teams[nextIndex + 1]
         IN  [s EXCEPT !.activeTeam = nextTeam, !.activePlayer = firstPick(nextTeam)]

canGoPrevious(s) == activeTeamIndex(s) > 0
canGoNext(s) ==
    activeTeamIndex(s) >= 0 /\ activeTeamIndex(s) < Len(s.teams) - 1

\* TeamBubble onSelect; first a variant that opens the last pick of the team
onSelectLastPick(s, t) ==
    [s EXCEPT !.activeTeam = t,
              !.activePlayer = IF Len(t.picks) > 0 THEN t.picks[Len(t.picks)] ELSE Null,
              !.view = "team"]

onSelect(s, t) ==
    [s EXCEPT !.activeTeam = t, !.activePlayer = firstPick(t), !.view = "team"]

\* Back to Teams onClick
\* Back to Teams onClick; first a variant of it that keeps the player
onBackKeepPlayer(s) == [s EXCEPT !.view = "overview", !.activeTeam = Null]

onBack(s) ==
    [s EXCEPT !.view = "overview", !.activePlayer = Null, !.activeTeam = Null]

\* Prev / Next onClick; a disabled button dispatches no click
onPrevious(s) ==
    IF canGoPrevious(s) THEN moveToTeam(s, activeTeamIndex(s) - 1) ELSE s
onNext(s) ==
    IF canGoNext(s) THEN moveToTeam(s, activeTeamIndex(s) + 1) ELSE s

\* pick row onClick
onPickClick(s, pick) == [s EXCEPT !.activePlayer = pick]

\* ---- actions ------------------------------------------------------------
\* a state update is committed; the seeding effect is scheduled when one of
\* its dependencies [view, activeTeam] changed
SetState(s, event) ==
    /\ teams' = s.teams
    /\ view' = s.view
    /\ activeTeam' = s.activeTeam
    /\ activePlayer' = s.activePlayer
    /\ isLoading' = s.isLoading
    /\ error' = s.error
    /\ unhandled' = s.unhandled
    /\ trigger' = event
    /\ before' = [view |-> view, count |-> Len(teams)]

Commit(s, event) ==
    /\ SetState(s, event)
    /\ seedPending' = (s.view # view \/ s.activeTeam # activeTeam)

Init ==
    /\ UiIdle /\ NormIdle /\ IdIdle /\ StatIdle /\ MinimalIdle
    /\ pc = "ui"

\* the component runs; in SpecRace its pending loads are told apart
Running == pc \in {"ui", "loads"}
Tracked == pc = "loads"
Live    == Running /\ effectActive /\ ~seedPending
Pending == fetching + parsing
Served  == IF Tracked THEN RaceDocuments ELSE Documents

\* loadDraft is called by `origin`
Issued(origin) ==
    IF Tracked
    THEN /\ loads' = [loads EXCEPT ![[phase |-> "fetch", origin |-> origin,
                                      stale |-> FALSE]] = @ + 1]
         /\ raced' = FALSE
    ELSE UNCHANGED <<loads, raced>>

\* a pending call of kind k is resumed and ends
Ended(k) == loads[k] > 0 /\ loads' = [loads EXCEPT ![k] = @ - 1]

\* a pending call of kind k goes from `await fetch` to `await response.json()`
Moved(k) ==
    /\ loads[k] > 0
    /\ loads' = [loads EXCEPT ![k] = @ - 1, ![[k EXCEPT !.phase = "json"]] = @ + 1]

\* the cleanup has run: every pending call of the mount effect is one of a
\* torn-down effect
AllStale ==
    [k \in LoadKinds |->
        IF k.origin = "retry" THEN loads[k]
        ELSE IF k.stale THEN loads[k] + loads[[k EXCEPT !.stale = FALSE]]
        ELSE 0]

AtFetch == { k \in LoadKinds : k.phase = "fetch" }
AtJson  == { k \in LoadKinds : k.phase = "json" }

\* one of the pending calls of the kinds K is the one resumed
EndsAt(K) == IF Tracked THEN \E k \in K : Ended(k) ELSE UNCHANGED loads
MovesOn   == IF Tracked THEN \E k \in AtFetch : Moved(k) ELSE UNCHANGED loads

\* the mount effect runs (first mount, or set up again after its cleanup);
\* all effects of the component run with it, the seeding effect after it
MountEffect ==
    /\ Running /\ ~effectActive /\ ~seedPending
    /\ Pending < MaxInFlight
    /\ isMountedRef' = TRUE
    /\ effectActive' = TRUE
    /\ fetching' = fetching + 1
    /\ SetState(loadDraftStart(Ui), "mount")
    /\ seedPending' = TRUE
    /\ Issued("mount")
    /\ UNCHANGED <<parsing, normVars, idVars, statVars, minVars, pc>>

\* the cleanup of the mount effect
Teardown ==
    /\ Live
    /\ isMountedRef' = FALSE
    /\ effectActive' = FALSE
    /\ trigger' = "teardown"
    /\ before' = [view |-> view, count |-> Len(teams)]
    /\ loads' = IF Tracked THEN AllStale ELSE loads
    /\ UNCHANGED <<teams, view, activeTeam, activePlayer, isLoading, error,
                   fetching, parsing, seedPending, unhandled, raced,
                   normVars, idVars, statVars, minVars, pc>>

SeedEffect ==
    /\ Running /\ seedPending
    /\ SetState(seedActivePlayer(Ui), "seed")
    /\ seedPending' = FALSE
    /\ UNCHANGED <<isMountedRef, effectActive, fetching, parsing, loads, raced,
                   normVars, idVars, statVars, minVars, pc>>

Handled(s, event) ==
    /\ Commit(s, event)
    /\ UNCHANGED <<isMountedRef, effectActive, fetching, parsing, loads, raced,
                   normVars, idVars, statVars, minVars, pc>>

\* Retry is rendered in the overview with no teams, not loading, and an error
\* the Retry button is rendered
RetryRendered ==
    view = "overview" /\ Len(teams) = 0 /\ ~isLoading /\ error # NoError

Retry ==
    /\ Live
    /\ RetryRendered
    /\ Pending < MaxInFlight
    /\ fetching' = fetching + 1
    /\ Commit(loadDraftStart(Ui), "retry")
    /\ Issued("retry")
    /\ UNCHANGED <<isMountedRef, effectActive, parsing, normVars, idVars, statVars, minVars, pc>>

SelectTeam ==
    /\ Live /\ view = "overview"
    /\ \E p \in DOMAIN teams : Handled(onSelect(Ui, teams[p]), "select")

SelectPlayer ==
    /\ Live /\ view = "team" /\ activeTeam # Null
    /\ \E k \in DOMAIN activeTeam.picks :
          Handled(onPickClick(Ui, activeTeam.picks[k]), "player")

Back ==
    /\ Live /\ view = "team" /\ activeTeam # Null
    /\ Handled(onBack(Ui), "back")

GoPrevious ==
    /\ Live /\ view = "team" /\ activeTeam # Null
    /\ Handled(onPrevious(Ui), "previous")

GoNext ==
    /\ Live /\ view = "team" /\ activeTeam # Null
    /\ Handled(onNext(Ui), "next")

Resumed(s, event) ==
    /\ Commit(s, event)
    /\ raced' = IF Tracked
                THEN raced \/ (fetching' + parsing' < Pending
                               /\ fetching' + parsing' > 0)
                ELSE raced
    /\ UNCHANGED <<isMountedRef, effectActive, normVars, idVars, statVars, minVars, pc>>

\* fetch() rejects
FetchRejects ==
    /\ Running /\ ~seedPending /\ fetching > 0
    /\ fetching' = fetching - 1 /\ UNCHANGED parsing
    /\ EndsAt(AtFetch)
    /\ Resumed(loadDraftFailed(Ui, isMountedRef), "fetchRejected")

\* fetch() resolves with a response whose ok is false
FetchNotOk ==
    /\ Running /\ ~seedPending /\ fetching > 0
    /\ fetching' = fetching - 1 /\ UNCHANGED parsing
    /\ EndsAt(AtFetch)
    /\ Resumed(loadDraftFailed(Ui, isMountedRef), "fetchNotOk")

\* fetch() resolves with an ok response; loadDraft awaits response.json()
FetchOk ==
    /\ Running /\ ~seedPending /\ fetching > 0
    /\ fetching' = fetching - 1 /\ parsing' = parsing + 1
    /\ MovesOn
    /\ Resumed(Ui, "fetchOk")

\* response.json() rejects: the body does not parse
JsonRejects ==
    /\ Running /\ ~seedPending /\ parsing > 0
    /\ parsing' = parsing - 1 /\ UNCHANGED fetching
    /\ EndsAt(AtJson)
    /\ Resumed(loadDraftFailed(Ui, isMountedRef), "jsonRejected")

\* response.json() resolves with a parsed document
JsonResolves ==
    /\ Running /\ ~seedPending /\ parsing > 0
    /\ parsing' = parsing - 1 /\ UNCHANGED fetching
    /\ EndsAt(AtJson)
    /\ \E data \in Served :
          Resumed(loadDraftParsed(Ui, isMountedRef, data),
                   IF Has(data, "teams") THEN "jsonResolved" ELSE "jsonNoTeams")

\* response.json() resolves with null
JsonResolvesNull ==
    /\ Running /\ ~seedPending /\ parsing > 0
    /\ parsing' = parsing - 1 /\ UNCHANGED fetching
    /\ EndsAt(AtJson)
    /\ Resumed(loadDraftParsed(Ui, isMountedRef, NullBody), "jsonNull")

Next ==
    \/ MountEffect \/ Teardown \/ SeedEffect \/ Retry
    \/ SelectTeam \/ SelectPlayer \/ Back \/ GoPrevious \/ GoNext
    \/ FetchRejects \/ FetchNotOk \/ FetchOk \/ JsonRejects \/ JsonResolves
    \/ JsonResolvesNull

Spec == Init /\ [][Next]_vars

\* the same component with its pending loads told apart, over RaceDocuments
InitRace ==
    /\ UiIdle /\ NormIdle /\ IdIdle /\ StatIdle /\ MinimalIdle
    /\ pc = "loads"

SpecRace == InitRace /\ [][Next]_vars

\* the lists setTeams(normalizedTeams) can store
NormalizedOf(D) ==
    { normalizeTeams(IF Has(d, "teams") THEN d.teams ELSE <<>>) : d \in D }
NormalizedDocuments     == NormalizedOf(Documents)
NormalizedRaceDocuments == NormalizedOf(RaceDocuments)

\* ---- the minimal variant (NbaMockDraftUi.tsx): its navigation -----------
\* team.picks?.[0] ?? null
minimalFirstPick(t) ==
    IF Has(t, "picks") /\ Len(t.picks) > 0 THEN t.picks[1] ELSE Null

\* TeamBubble onSelect; first a variant of it that takes the last pick
minimalOnSelectLastPick(s, t) ==
    [s EXCEPT !.activeTeam = t,
              !.activePlayer = IF Has(t, "picks") /\ Len(t.picks) > 0
                               THEN t.picks[Len(t.picks)] ELSE Null,
              !.view = "team"]

minimalOnSelect(s, t) ==
    [s EXCEPT !.activeTeam = t, !.activePlayer = minimalFirstPick(t),
              !.view = "team"]

\* Back to Teams onClick
minimalOnBack(s) ==
    [s EXCEPT !.view = "overview", !.activePlayer = Null, !.activeTeam = Null]

\* pick row onClick
minimalOnPickClick(s, pick) == [s EXCEPT !.activePlayer = pick]

\* the seeding effect
minimalSeedActivePlayer(s) ==
    IF s.view = "team" /\ s.activeTeam # Null
    THEN [s EXCEPT !.activePlayer =
             IF s.activePlayer # Null THEN s.activePlayer
             ELSE minimalFirstPick(s.activeTeam)]
    ELSE s

\* a state update of the minimal variant is committed; its seeding effect is
\* scheduled when one of its dependencies [view, activeTeam] changed
MinimalCommit(s) ==
    minimal' = [s EXCEPT !.seedPending =
                   (s.view # minimal.view \/ s.activeTeam # minimal.activeTeam)]

\* ---- the two variants side by side over one team list ------------------
\* both have loaded the list and are in the Overview; no load is pending
InitPair ==
    /\ NormIdle /\ IdIdle /\ StatIdle
    /\ teams \in NormalizedDocuments
    /\ minimal = [teams |-> teams, view |-> "overview", activeTeam |-> Null,
                  activePlayer |-> Null, seedPending |-> FALSE]
    /\ view = "overview" /\ activeTeam = Null /\ activePlayer = Null
    /\ isLoading = FALSE /\ error = NoError
    /\ isMountedRef = TRUE /\ effectActive = TRUE /\ fetching = 0
    /\ parsing = 0 /\ seedPending = FALSE /\ unhandled = FALSE
    /\ trigger = "none"
    /\ before = [view |-> "overview", count |-> Len(teams)]
    /\ loads = NoLoads /\ raced = FALSE
    /\ pc = "pair"

\* neither variant has an effect to run: the user's next trigger is handled
PairLive == pc = "pair" /\ ~seedPending /\ ~minimal.seedPending
PairFrame ==
    UNCHANGED <<isMountedRef, effectActive, fetching, parsing, loads, raced,
                normVars, idVars, statVars, pc>>

\* the same trigger in both variants
PairSelectTeam ==
    /\ PairLive /\ view = "overview" /\ minimal.view = "overview"
    /\ \E p \in DOMAIN teams \cap DOMAIN minimal.teams :
          /\ Commit(onSelect(Ui, teams[p]), "select")
          /\ MinimalCommit(minimalOnSelect(minimal, minimal.teams[p]))
    /\ PairFrame

PairSelectPlayer ==
    /\ PairLive
    /\ view = "team" /\ activeTeam # Null
    /\ minimal.view = "team" /\ minimal.activeTeam # Null
    /\ \E k \in DOMAIN activeTeam.picks \cap DOMAIN minimal.activeTeam.picks :
          /\ Commit(onPickClick(Ui, activeTeam.picks[k]), "player")
          /\ MinimalCommit(minimalOnPickClick(minimal,
                                              minimal.activeTeam.picks[k]))
    /\ PairFrame

PairBack ==
    /\ PairLive
    /\ view = "team" /\ activeTeam # Null
    /\ minimal.view = "team" /\ minimal.activeTeam # Null
    /\ Commit(onBack(Ui), "back")
    /\ MinimalCommit(minimalOnBack(minimal))
    /\ PairFrame

\* the seeding effect of each variant
PairSeedEffect ==
    /\ pc = "pair" /\ seedPending
    /\ SetState(seedActivePlayer(Ui), "seed")
    /\ seedPending' = FALSE
    /\ UNCHANGED minimal
    /\ PairFrame

MinimalSeedEffect ==
    /\ pc = "pair" /\ minimal.seedPending
    /\ minimal' = [minimalSeedActivePlayer(minimal) EXCEPT !.seedPending = FALSE]
    /\ UNCHANGED uiVars
    /\ PairFrame

NextPair ==
    \/ PairSelectTeam \/ PairSelectPlayer \/ PairBack
    \/ PairSeedEffect \/ MinimalSeedEffect

SpecPair == InitPair /\ [][NextPair]_vars

-----------------------------------------------------------------------------
(***************************************************************************)
(* Properties of the normalizer                                            *)
(***************************************************************************)
IsLetterOrDigit(c) ==
    c \in Range(UpperLetters) \cup Range(LowerLetters) \cup Range(DigitChars)

NonBlank(s) == \E p \in DOMAIN s : ~IsWhitespace(s[p])

LowerOf(c) ==
    IF \E k \in 1..26 : UpperLetters[k] = c
    THEN LowerLetters[CHOOSE k \in 1..26 : UpperLetters[k] = c]
    ELSE c

RECURSIVE Flatten(_)
Flatten(ss) == IF ss = <<>> THEN <<>> ELSE Head(ss) \o Flatten(Tail(ss))

\* The slug, position by position: each letter or digit of the name, lower-cased,
\* preceded by a hyphen when it follows a non-alphanumeric that itself follows
\* some earlier letter or digit.
ExpectedSlug(name) ==
    Flatten([p \in DOMAIN name |->
        IF ~IsLetterOrDigit(name[p]) THEN <<>>
        ELSE (IF /\ p > 1
                 /\ ~IsLetterOrDigit(name[p - 1])
                 /\ \E q \in 1..(p - 1) : IsLetterOrDigit(name[q])
              THEN <<"-">> ELSE <<>>) \o <<LowerOf(name[p])>>])

RECURSIVE DecValue(_)
DecValue(ds) ==
    IF ds = <<>> THEN 0
    ELSE 10 * DecValue(SubSeq(ds, 1, Len(ds) - 1))
            + ((CHOOSE k \in 1..10 : DigitChars[k] = ds[Len(ds)]) - 1)

\* ds is the decimal numeral of n
IsDecimalOf(ds, n) ==
    /\ ds # <<>>
    /\ \A k \in DOMAIN ds : ds[k] \in Range(DigitChars)
    /\ Len(ds) > 1 => ds[1] # "0"
    /\ DecValue(ds) = n

\* s is prefix followed by the decimal numeral of n
IsPrefixThenNumber(s, prefix, n) ==
    /\ Len(s) > Len(prefix)
    /\ SubSeq(s, 1, Len(prefix)) = prefix
    /\ IsDecimalOf(SubSeq(s, Len(prefix) + 1, Len(s)), n)

GoldenSlug ==
    <<"g","o","l","d","e","n","-","s","t","a","t","e","-",
      "w","a","r","r","i","o","r","s">>

IsPermutation(a, b) ==
    /\ Len(a) = Len(b)
    /\ \A x \in Range(a) \cup Range(b) :
          Cardinality({ k \in DOMAIN a : a[k] = x })
              = Cardinality({ k \in DOMAIN b : b[k] = x })

IsAscendingByPick(ps) ==
    \A j, k \in DOMAIN ps : j < k => ps[j].pick <= ps[k].pick

RawPicks(t) == IF Has(t, "picks") THEN t.picks ELSE <<>>

\* C7: the ids of the canonical teams returned by normalizeTeams are pairwise
\* distinct, whatever mix of provided and generated ids the input has.
C7_IdsPairwiseDistinct ==
    pc = "done" =>
        \A p, q \in DOMAIN normalized :
            p # q => normalized[p].id # normalized[q].id

\* C8: createTeamId returns a non-blank provided id as is; otherwise, for a
\* non-blank name with a non-empty slug, the slug, a hyphen and the decimal
\* index; otherwise `team-` and the decimal index.  The id is never empty, and
\* "Golden State Warriors" without id gives golden-state-warriors-<index>.
C8_CreateTeamIdDerivation ==
    pc = "done" =>
        /\ Len(teamId) > 0
        /\ IF Has(team, "id") /\ NonBlank(team.id)
           THEN teamId = team.id
           ELSE IF /\ Has(team, "name") /\ NonBlank(team.name)
                   /\ ExpectedSlug(team.name) # <<>>
                THEN IsPrefixThenNumber(teamId,
                         ExpectedSlug(team.name) \o <<"-">>, index)
                ELSE IsPrefixThenNumber(teamId, TeamDash, index)
        /\ (team = [name |-> GoldenStateWarriors]) =>
               IsPrefixThenNumber(teamId, GoldenSlug \o <<"-">>, index)

C8_Witness ==
    /\ pc = "done"
    /\ team = [name |-> GoldenStateWarriors]
    /\ index = 12
    /\ teamId = GoldenSlug \o <<"-", "1", "2">>

\* C9: normalizeTeams gives every team the picks of its input record, sorted
\* ascending by pick number (a permutation of them; empty when the record has
\* none), and leaves the input array as it was.
C9_PicksSortedInputUntouched ==
    [][ (pc = "start" /\ pc' = "done") =>
            /\ rawTeams' = rawTeams
            /\ Len(normalized') = Len(rawTeams)
            /\ \A p \in DOMAIN rawTeams :
                  /\ IsPermutation(normalized'[p].picks, RawPicks(rawTeams[p]))
                  /\ IsAscendingByPick(normalized'[p].picks) ]_vars

C9_Witness ==
    /\ pc = "done"
    /\ rawTeams = <<[picks |-> <<Pk(3), Pk(1), Pk(2)>>]>>
    /\ normalized[1].picks = <<Pk(1), Pk(2), Pk(3)>>

\* C10: normalizeTeams returns one team per input record, at the record's
\* position; an empty input gives an empty output; an absent name becomes
\* `Team <i+1>`, an absent logo the empty string, absent picks the empty array.
C10_OneTeamPerRecord ==
    pc = "done" =>
        /\ Len(normalized) = Len(rawTeams)
        /\ \A p \in DOMAIN rawTeams :
              LET t == rawTeams[p]
                  n == normalized[p]
              IN  /\ IF Has(t, "name") THEN n.name = t.name
                     ELSE IsPrefixThenNumber(n.name, TeamSpace, p)
                  /\ n.logo = (IF Has(t, "logo") THEN t.logo ELSE <<>>)
                  /\ IsPermutation(n.picks, RawPicks(t))
                  /\ Has(t, "id") /\ NonBlank(t.id) => n.id = t.id
                  /\ ~(Has(t, "id") /\ NonBlank(t.id)) =>
                        \E k \in 1..Len(n.id) :
                            /\ n.id[k] = "-"
                            /\ IsDecimalOf(SubSeq(n.id, k + 1, Len(n.id)), p - 1)

C10_Witness ==
    /\ pc = "done"
    /\ rawTeams = <<[id |-> <<"x">>, name |-> <<"X", " ", "y">>], EmptyRecord>>
    /\ normalized[1].name = <<"X", " ", "y">>
    /\ normalized[2] = [id |-> TeamDash \o <<"1">>, name |-> TeamSpace \o <<"2">>,
                        logo |-> <<>>, picks |-> <<>>]

-----------------------------------------------------------------------------
(***************************************************************************)
(* Properties of the component                                             *)
(***************************************************************************)
Positions == DOMAIN teams

\* a pending load is resumed to its end (not the step from fetch to json)
LoadEnds == Pending' < Pending
LoadFails ==
    LoadEnds /\ trigger' \in {"fetchRejected", "fetchNotOk", "jsonRejected", "jsonNull"}

\* C1: whenever the view is the team view, the active team's id is the id of
\* a team of the current list, and the active player, if set, is one of the
\* active team's picks.
C1_SelectionWithinList ==
    (pc = "ui" /\ view = "team") =>
        /\ activeTeam # Null
        /\ \E p \in Positions : teams[p].id = activeTeam.id
        /\ activePlayer # Null => activePlayer \in Range(activeTeam.picks)

\* C2: a load that is resumed while the component is torn down changes none
\* of teams, view, activeTeam, activePlayer, error, isLoading, and no error
\* escapes loadDraft.
C2_TornDownLoadDiscarded ==
    [][ (~isMountedRef /\ (fetching' < fetching \/ parsing' < parsing)) =>
            /\ UNCHANGED <<teams, view, activeTeam, activePlayer, error, isLoading>>
            /\ ~unhandled' ]_vars

C2_Witness ==
    /\ pc = "ui" /\ ~isMountedRef /\ ~effectActive
    /\ trigger = "jsonRejected"
    /\ Pending = 0 /\ isLoading /\ error = NoError

\* C3: a load that fails while the component is mounted ends with the view
\* Overview, no teams, no active team, no active player and the error message,
\* whatever the view, the list and the selection were.
C3_FailedLoadResets ==
    [][ (isMountedRef /\ LoadFails) =>
            /\ view' = "overview"
            /\ teams' = <<>>
            /\ activeTeam' = Null
            /\ activePlayer' = Null
            /\ error' = ErrorMessage ]_vars

\* the failure came when the team view showed a non-empty list
C3_Witness ==
    /\ pc = "ui" /\ isMountedRef
    /\ trigger = "fetchNotOk"
    /\ before = [view |-> "team", count |-> 3]
    /\ view = "overview" /\ teams = <<>> /\ error = ErrorMessage

\* C4: selecting team T in the overview gives the team view with active team
\* T and active player the pick of T with the lowest number (none when T has
\* no picks); the list, the error and the loading flag stay.
C4_SelectTeam ==
    [][ trigger' = "select" =>
            /\ view = "overview"
            /\ view' = "team"
            /\ activeTeam' \in Range(teams)
            /\ IF activeTeam'.picks = <<>> THEN activePlayer' = Null
               ELSE /\ activePlayer' \in Range(activeTeam'.picks)
                    /\ \A x \in Range(activeTeam'.picks) :
                          activePlayer'.pick <= x.pick
            /\ UNCHANGED <<teams, error, isLoading>> ]_vars

C4_Witness ==
    /\ pc = "ui" /\ trigger = "select" /\ view = "team"
    /\ activeTeam \in Range(teams)
    /\ activeTeam.picks = <<Pk(1), Pk(2)>>
    /\ activePlayer = Pk(1)

\* C5: in the team view with the active team at position p of the list, next
\* (p not last) makes the team at p+1 active with its first pick, and previous
\* (p not first) the team at p-1 with its first pick.
C5_NavigationByPosition ==
    [][ /\ trigger' = "next" =>
              \A p \in Positions :
                  (teams[p] = activeTeam /\ p < Len(teams)) =>
                      /\ activeTeam' = teams[p + 1]
                      /\ activePlayer' = firstPick(teams[p + 1])
        /\ trigger' = "previous" =>
              \A p \in Positions :
                  (teams[p] = activeTeam /\ p > 1) =>
                      /\ activeTeam' = teams[p - 1]
                      /\ activePlayer' = firstPick(teams[p - 1]) ]_vars

\* C6: previous with the active team at the first position, and next with it
\* at the last position, leave view, active team, active player and list as
\* they are.
C6_NoWraparound ==
    [][ /\ (trigger' = "previous" /\ Len(teams) > 0 /\ teams[1] = activeTeam) =>
              UNCHANGED <<view, activeTeam, activePlayer, teams>>
        /\ (trigger' = "next" /\ Len(teams) > 0 /\ teams[Len(teams)] = activeTeam) =>
              UNCHANGED <<view, activeTeam, activePlayer, teams>> ]_vars

\* Navigation over a list whose ids are pairwise distinct is by position and
\* does not wrap around (the two statements above, for such lists).
DistinctIds == \A p, q \in Positions : p # q => teams[p].id # teams[q].id

NavigationByPositionDistinctIds ==
    [][ DistinctIds =>
        /\ trigger' = "next" =>
              \A p \in Positions :
                  (teams[p] = activeTeam /\ p < Len(teams)) =>
                      /\ activeTeam' = teams[p + 1]
                      /\ activePlayer' = firstPick(teams[p + 1])
        /\ trigger' = "previous" =>
              \A p \in Positions :
                  (teams[p] = activeTeam /\ p > 1) =>
                      /\ activeTeam' = teams[p - 1]
                      /\ activePlayer' = firstPick(teams[p - 1]) ]_vars

NoWraparoundDistinctIds ==
    [][ DistinctIds =>
        /\ (trigger' = "previous" /\ Len(teams) > 0 /\ teams[1] = activeTeam) =>
              UNCHANGED <<view, activeTeam, activePlayer, teams>>
        /\ (trigger' = "next" /\ Len(teams) > 0 /\ teams[Len(teams)] = activeTeam) =>
              UNCHANGED <<view, activeTeam, activePlayer, teams>> ]_vars

\* a pending load ends by response.json() resolving with a document
LoadSucceeds == LoadEnds /\ trigger' \in {"jsonResolved", "jsonNoTeams"}
\* the list normalizeTeams builds from some document that can be served
NormalizedLists ==
    IF Tracked THEN NormalizedRaceDocuments ELSE NormalizedDocuments

\* C11: a load that succeeds while mounted with an empty team list forces the
\* Overview, clears the active team, the active player and the error, whatever
\* the state before; a document without a `teams` field is such a load.
C11_EmptyLoadForcesOverview ==
    [][ (LoadSucceeds /\ isMountedRef)
          => /\ trigger' = "jsonNoTeams" => teams' = <<>>
             /\ teams' = <<>>
                  => /\ view' = "overview"
                     /\ activeTeam' = Null /\ activePlayer' = Null
                     /\ error' = NoError ]_vars

\* a document without `teams` arrived while a team of a non-empty list was open
C11_Witness ==
    /\ trigger = "jsonNoTeams" /\ isMountedRef
    /\ before.view = "team" /\ before.count > 0
    /\ teams = <<>> /\ view = "overview"
    /\ activeTeam = Null /\ activePlayer = Null /\ error = NoError

\* C12: a load that succeeds while mounted with a non-empty team list replaces
\* the list by the normalized list of one document and clears the error, and
\* leaves the view, the active team and the active player as they were.
C12_NonEmptyLoadKeepsSelection ==
    [][ (LoadSucceeds /\ isMountedRef /\ teams' # <<>>)
          => /\ teams' \in NormalizedLists
             /\ error' = NoError
             /\ UNCHANGED <<view, activeTeam, activePlayer>> ]_vars

\* a new list arrived that does not hold the team that is open
C12_Witness ==
    /\ trigger = "jsonResolved" /\ isMountedRef
    /\ teams # <<>> /\ error = NoError
    /\ view = "team" /\ activeTeam # Null
    /\ \A i \in DOMAIN teams : teams[i].id # activeTeam.id

\* C13: Back from TeamDetail yields the Overview with no active team and no
\* active player, and leaves the team list, the error and the loading flag
\* unchanged.
C13_Back ==
    [][ trigger' = "back"
          => /\ view' = "overview" /\ activeTeam' = Null /\ activePlayer' = Null
             /\ UNCHANGED <<teams, error, isLoading>> ]_vars

\* Back was pressed in TeamDetail while a load was pending
C13_Witness ==
    /\ trigger = "back" /\ before.view = "team"
    /\ view = "overview" /\ activeTeam = Null /\ activePlayer = Null
    /\ teams # <<>> /\ isLoading /\ Pending > 0

\* C14: in TeamDetail, once the seeding effect has run for the state, an
\* active team with at least one pick has an active player; the seeding effect
\* keeps a player that is chosen, sets the team's first pick when none is, and
\* does nothing outside TeamDetail.
C14_SeededPlayer ==
    [][ /\ (view' = "team" /\ activeTeam' # Null /\ ~seedPending')
            => (Len(activeTeam'.picks) > 0 => activePlayer' # Null)
        /\ trigger' = "seed"
            => /\ UNCHANGED <<view, activeTeam, teams>>
               /\ activePlayer' =
                     IF view = "team" /\ activeTeam # Null /\ activePlayer = Null
                     THEN firstPick(activeTeam)
                     ELSE activePlayer ]_vars

\* the seeding effect ran in TeamDetail while a player other than the first
\* pick was chosen
C14_Witness ==
    /\ trigger = "seed" /\ ~seedPending
    /\ view = "team" /\ activeTeam # Null /\ Len(activeTeam.picks) > 1
    /\ activePlayer # Null /\ activePlayer # firstPick(activeTeam)

\* C18: whenever an error is recorded the team list is empty, the view is the
\* Overview and no team or player is selected, so that the panel with the
\* error is the one rendered; its Retry button is rendered as soon as no load
\* is shown as running, and while one is shown as running in a live component
\* a load is pending.
C18_ErrorImpliesReset ==
    error # NoError
      => /\ teams = <<>> /\ view = "overview"
         /\ activeTeam = Null /\ activePlayer = Null
         /\ ~isLoading => RetryRendered
         /\ (isLoading /\ effectActive) => Pending > 0

\* a load failed over a non-empty list and the Retry button can be pressed
C18_Witness ==
    /\ error = ErrorMessage /\ before.count > 0
    /\ trigger \in {"fetchRejected", "fetchNotOk", "jsonRejected", "jsonNull"}
    /\ teams = <<>> /\ view = "overview" /\ activeTeam = Null
    /\ Live /\ RetryRendered /\ ENABLED Retry

\* the user's navigation, as the rendered controls offer it
NavigationOffered ==
    /\ (view = "overview" /\ teams # <<>>) => ENABLED SelectTeam
    /\ (view = "team" /\ activeTeam # Null)
         => /\ ENABLED Back /\ ENABLED GoPrevious /\ ENABLED GoNext
            /\ activeTeam.picks # <<>> => ENABLED SelectPlayer

\* C20: the start of a load (by the mount effect or by Retry) sets the loading
\* flag and leaves the view, the active team, the active player, the team
\* list and the error as they were; while a load is pending in a live
\* component the navigation stays enabled.
C20_LoadStartOnlyLoadingFlag ==
    /\ [][ trigger' \in {"mount", "retry"}
             => /\ isLoading' /\ Pending' = Pending + 1
                /\ UNCHANGED <<view, activeTeam, activePlayer, teams, error>> ]_vars
    /\ []((Live /\ Pending > 0) => NavigationOffered)

\* a load began while a team was open, and its list and player are still shown
C20_Witness ==
    /\ trigger = "mount" /\ isLoading /\ Pending > 0
    /\ view = "team" /\ activeTeam # Null /\ activePlayer # Null /\ teams # <<>>

\* the three key forms looked up for a label, in the order of the lookups
StatForms(l) ==
    CASE l = PPG -> <<PPG, <<"p", "p", "g">>, PPG>>
      [] l = RPG -> <<RPG, <<"r", "p", "g">>, RPG>>
      [] l = APG -> <<APG, <<"a", "p", "g">>, APG>>

\* C15: under the labels PPG, RPG and APG the chip shows the value of the
\* first of the exact, lower-case and upper-case forms of the label that the
\* stats define (the placeholder when that value is null), and the placeholder
\* "--" when there are no stats or none of the three forms is defined; stats
\* {ppg: 24.5} show 24.5 under PPG.
C15_StatLookup ==
    pc = "done" /\ chip # NotRun
      => LET forms == StatForms(label)
             found == IF stats = NoStats THEN {}
                      ELSE { i \in 1..3 : forms[i] \in DOMAIN stats.object }
         IN  /\ found = {} => chip = Placeholder
             /\ found # {}
                  => LET first == CHOOSE i \in found : \A j \in found : i <= j
                         value == stats.object[forms[first]]
                     IN  chip = IF value = JsNull THEN Placeholder ELSE value
             /\ (label = PPG /\ stats # NoStats /\ DOMAIN stats.object = {<<"p", "p", "g">>}
                   /\ stats.object[<<"p", "p", "g">>] = <<"2", "4", ".", "5">>)
                  => chip = <<"2", "4", ".", "5">>

\* stats {ppg: 24.5} were shown under PPG
C15_Witness ==
    /\ pc = "done" /\ label = PPG
    /\ stats = [object |-> (<<"p", "p", "g">> :> <<"2", "4", ".", "5">>)]
    /\ chip = <<"2", "4", ".", "5">>

\* a load ends that was pending together with another one
RaceEnds == LoadEnds /\ (Pending > 1 \/ raced)

\* C16: when loads overlap, each resolution while mounted leaves what it alone
\* prescribes, whichever load was called first: a success the normalized list
\* of one document and no error (with the Overview and no selection when the
\* list is empty, the view and the selection as they were otherwise), a failure
\* the empty list, the error, the Overview and no selection; and the team list
\* of every state is the whole normalized list of one document or empty.
C16_LastResolutionWins ==
    [][ /\ teams' \in NormalizedLists
        /\ (RaceEnds /\ isMountedRef /\ LoadSucceeds)
             => /\ error' = NoError
                /\ IF teams' = <<>>
                   THEN view' = "overview" /\ activeTeam' = Null
                        /\ activePlayer' = Null
                   ELSE UNCHANGED <<view, activeTeam, activePlayer>>
        /\ (RaceEnds /\ isMountedRef /\ LoadFails)
             => /\ teams' = <<>> /\ error' = ErrorMessage
                /\ view' = "overview" /\ activeTeam' = Null
                /\ activePlayer' = Null ]_vars

\* two overlapping loads have both resolved; the later one delivered one team
\* where two were listed
C16_Witness ==
    /\ raced /\ Pending = 0 /\ isMountedRef
    /\ trigger = "jsonResolved" /\ before.count = 2
    /\ Len(teams) = 1 /\ error = NoError /\ ~isLoading

\* the load that ends in this step is one of the kinds K
EndsOneOf(K) == LoadEnds /\ \E k \in K : loads'[k] < loads[k]

\* the loads called by a mount effect that has been cleaned up since
StaleMountLoads == { k \in LoadKinds : k.origin = "mount" /\ k.stale }
\* the loads called by the Retry button
RetryLoads == { k \in LoadKinds : k.origin = "retry" }

\* C17: the result of a load whose mount effect has been cleaned up is
\* discarded, changing no state, also when the effect has been set up again
\* before the load resolves.
C17_StaleLoadDiscarded ==
    [][ EndsOneOf(StaleMountLoads)
          => UNCHANGED <<teams, view, activeTeam, activePlayer, error,
                         isLoading>> ]_vars

\* C19: when a load called by Retry succeeds while mounted with a non-empty
\* list, the state becomes that normalized list, no error, not loading, and
\* the Overview with no selection.
C19_RetryRecovers ==
    [][ (EndsOneOf(RetryLoads) /\ LoadSucceeds /\ isMountedRef /\ teams' # <<>>)
          => /\ teams' \in NormalizedLists
             /\ error' = NoError /\ ~isLoading'
             /\ view' = "overview" /\ activeTeam' = Null
             /\ activePlayer' = Null ]_vars

\* C21: in every state of the complete variant the view is TeamDetail exactly
\* when an active team is set, the Overview has neither an active team nor an
\* active player, and an empty team list is shown in the Overview.
C21_ViewMatchesSelection ==
    /\ view = "team" <=> activeTeam # Null
    /\ view = "overview" => (activeTeam = Null /\ activePlayer = Null)
    /\ teams = <<>> => view = "overview"

\* a load failed while a team was open: the list is empty and the Overview
\* is shown with nothing selected
C21_Witness ==
    /\ trigger \in {"fetchRejected", "fetchNotOk", "jsonRejected", "jsonNull"}
    /\ isMountedRef /\ before.view = "team" /\ before.count > 0
    /\ teams = <<>> /\ view = "overview"
    /\ activeTeam = Null /\ activePlayer = Null

\* C22: while the component is mounted, the loading flag is true in every
\* state in which a fetch issued by loadDraft is still pending.
C22_LoadingWhilePending ==
    (Running /\ isMountedRef /\ effectActive /\ Pending > 0) => isLoading

\* C23: run side by side over the same team list, after every sequence of
\* select-team, select-player and back triggers, once the seeding effects have
\* run, the minimal variant and the complete variant have the same view, the
\* same active team and the same active player.
C23_VariantsAgree ==
    PairLive
      => /\ minimal.view = view
         /\ minimal.activeTeam = activeTeam
         /\ minimal.activePlayer = activePlayer
         /\ minimal.teams = teams

\* both show a player other than the first pick of a team with several picks
C23_Witness ==
    /\ PairLive /\ trigger = "player"
    /\ view = "team" /\ activeTeam # Null /\ Len(activeTeam.picks) > 1
    /\ activePlayer # firstPick(activeTeam)
    /\ minimal.view = "team" /\ minimal.activeTeam = activeTeam
    /\ minimal.activePlayer = activePlayer

====
